---------------------------- MODULE Spec2Model ----------------------------
(***************************************************************************)
(* Verification model of the ACTS ingestion-and-execution pipeline:        *)
(*   - the candle store (shared/redis_client.py) and its two writers, the  *)
(*     stream ingestor (_process_kline_data) and the data collector        *)
(*     (_save_candles, collect_latest_candle);                             *)
(*   - the WebSocket client's connect / reconnect protocol;                *)
(*   - the paginated backfill (get_bulk_kline_data) and retry();           *)
(*   - the trading scheduler's cycle over the active users.                *)
(* Each subsystem has its own specification (SpecStore, SpecWs,            *)
(* SpecBackfill, SpecSched, SpecDecision, SpecTrade, SpecLoop, SpecRecv,   *)
(* SpecSave); the variables of the other subsystems stay at their initial  *)
(* values.                                                                 *)
(***************************************************************************)
EXTENDS Integers, Sequences, FiniteSets, TLC

VARIABLES
    \* ---- candle store and its writers ----
    store,          \* the Redis list kline:<symbol>:<interval>, head first
    clock,          \* exchange time, in candle periods
    loopOwner,      \* which coroutine of the data-server event loop runs
    wsPc,           \* _process_kline_data: "idle" | "loop" | "trim"
    wsQueue,        \* entries of message['data'] still to visit
    wsConfirmed,    \* start of the last candle the exchange confirmed
    wsSaved,        \* history: the entries handed to save_candle_data
    colPc,          \* collector: "idle" | "loop" | "trim"
    colQueue,       \* reversed_candles still to save
    colOp,          \* "none" | "save_candles" | "latest"
    wsSeen,         \* history: the confirm values the loop has visited
    backfilled,     \* history: the list given to the last _save_candles
    initialBackfill,\* history: one _save_candles into the empty store,
                    \* and since then stream writes only
    \* ---- WebSocket client (BybitWebSocketClient) ----
    connPc,             \* "init" | "connecting" | "message_loop" |
                        \* "backoff" | "returned"
    websocket,          \* self.websocket: "none" | "open" | "closed"
    reconnect_attempts, \* self.reconnect_attempts
    is_connecting,      \* self.is_connecting
    running,            \* self.running
    websocket_status,   \* system:status field websocket_status
    gaveUp,             \* history: _schedule_reconnect took its
                        \* max-attempts branch
    sessions,           \* history: sockets opened so far
    ping_task,          \* self.ping_task: "none" | "running" | "done"
    oldPings,           \* ping loops of earlier sockets still alive
    disconnectCalled,   \* history: disconnect() has been called
    subscribed,         \* history: _handle_message has taken its
                        \* subscribe-confirmation branch on this socket
    \* ---- backfill (BybitApiClient.get_bulk_kline_data, retry) ----
    bulkPc,         \* "idle" | "retry" | "body" | "returned" | "raised"
    source,         \* timestamps of the candles the exchange holds
    total_count,    \* the target depth
    all_candles,    \* timestamps collected so far
    end_time,       \* the cursor
    attempt,        \* retry(): the loop variable
    bulkCandles,    \* candles: what "await retry(...)" evaluated to
    result,         \* the list get_bulk_kline_data returns
    fetchCalls,     \* history: executions of get_kline_data
    fetchFailures,  \* history: failed executions for this batch
    funcCalls,      \* history: calls of func by retry() for this batch
    \* ---- trading scheduler (AutoTradingScheduler) ----
    cyclePc,            \* execute_trading_cycle: "idle" | "users" | "done"
    active_users,       \* the user ids _get_active_users returned
    userIdx,            \* position of the for loop in active_users
    successful_trades,  \* counter of the running cycle
    failed_trades,      \* counter of the running cycle
    testnet,            \* BybitTradingService.testnet
    ledger,             \* rows of trade_logs, in insertion order
    counted,            \* history: how the cycle counted each user
    threw,              \* history: users whose decision call raised
    orders,             \* history: order requests sent to the exchange
    ticks,              \* history: cycles started
    paths,              \* history: the path each user of the cycle took
    status_surface,     \* the auto_server_* fields of system:status
    place_calls,        \* history: the _place_order calls of the cycle
    trade_calls,        \* history: the execute_trade calls of the cycle
                        \* that placed an order or raised
    \* ---- decision engine (GPTAnalysisService) ----
    decPc,          \* "idle" | "analysed" | "validated"
    payload,        \* what the completion call produced
    user_config,    \* the user's max_leverage and risk_level
    analysis,       \* the GPTAnalysis being passed on
    \* ---- one trade (BybitTradingService.execute_trade) ----
    tradePc,            \* "idle" | "balance" | "price" | "quantity" |
                        \* "order" | "returned"
    balance_response,   \* history: the answer to the wallet-balance query
    balance_info,       \* what _get_account_balance returned
    current_price,      \* what _get_current_price returned
    order_qty,          \* the quantity, in units of 0.000001
    trade_result,       \* what execute_trade returns
    reached,            \* history: the steps this execution got to
    qtyCall,            \* the last direct _calculate_order_quantity call
    \* ---- scheduler loop (AutoTradingScheduler.start_scheduler) ----
    loopPc,         \* start_scheduler: "init" | "first_cycle" | "sleep" |
                    \* "exited"
    is_running,     \* self.is_running
    development,    \* os.getenv('NODE_ENV') == 'development'
    jobs,           \* len(schedule.jobs)
    cycles,         \* execute_trading_cycle calls in progress
    started,        \* history: cycles start_scheduler and its job started
    manual,         \* history: manual_execution calls
    stopCalled,     \* history: stop_scheduler() has been called
    \* ---- receive loop (BybitWebSocketClient._message_loop) ----
    recvCount,      \* history: messages handed to _handle_message
    lastMsg,        \* history: the message handled last
    malformedSeen,  \* history: a malformed message has been handled
    \* ---- one caller of save_candle_data ----
    saves,          \* history: calls of save_candle_data
    lastSave        \* history: outcome of the last call, and the series
                    \* before it

storeVars == <<store, clock, loopOwner, wsPc, wsQueue, wsConfirmed, wsSaved,
               wsSeen, colPc, colQueue, colOp, backfilled, initialBackfill>>

connVars == <<connPc, websocket, reconnect_attempts, is_connecting, running,
              websocket_status, gaveUp, sessions, ping_task, oldPings,
              disconnectCalled, subscribed>>

bulkVars == <<bulkPc, source, total_count, all_candles, end_time, attempt,
              bulkCandles, result, fetchCalls, fetchFailures, funcCalls>>

schedVars == <<cyclePc, active_users, userIdx, successful_trades,
               failed_trades, testnet, ledger, counted, threw, orders, ticks,
               paths, status_surface, place_calls, trade_calls>>

decVars == <<decPc, payload, user_config, analysis>>

tradeVars == <<tradePc, balance_response, balance_info, current_price,
               order_qty, trade_result, reached, qtyCall>>

loopVars == <<loopPc, is_running, development, jobs, cycles, started, manual,
              stopCalled>>

recvVars == <<recvCount, lastMsg, malformedSeen>>

saveVars == <<saves, lastSave>>

vars == <<storeVars, connVars, bulkVars, schedVars, decVars, tradeVars,
          loopVars, recvVars, saveVars>>

notStore ==
    <<connVars, bulkVars, schedVars, decVars, tradeVars, loopVars,
      recvVars, saveVars>>
notConn ==
    <<storeVars, bulkVars, schedVars, decVars, tradeVars, loopVars,
      recvVars, saveVars>>
notBulk ==
    <<storeVars, connVars, schedVars, decVars, tradeVars, loopVars,
      recvVars, saveVars>>
notSched ==
    <<storeVars, connVars, bulkVars, decVars, tradeVars, loopVars,
      recvVars, saveVars>>
notDec ==
    <<storeVars, connVars, bulkVars, schedVars, tradeVars, loopVars,
      recvVars, saveVars>>
notLoop ==
    <<storeVars, connVars, bulkVars, schedVars, decVars, tradeVars,
      recvVars, saveVars>>
notRecv == <<bulkVars, schedVars, decVars, tradeVars, loopVars, saveVars>>
notSave ==
    <<connVars, bulkVars, schedVars, decVars, tradeVars, loopVars, recvVars>>
notTrade ==
    <<storeVars, connVars, bulkVars, schedVars, decVars, loopVars,
      recvVars, saveVars>>

-----------------------------------------------------------------------------
(* Bounds of the model.                                                    *)

\* Length cap of a series; stands for the 5000 of LTRIM key 0 4999.
MaxCandles == 2
\* Horizon of the exchange clock (candle periods 1..MaxTs).
MaxTs == 3
\* Most entries in the data array of one kline message.
MaxMsgLen == 2
\* Most candles handed to one _save_candles call.
MaxBatch == 2
\* Most sockets the exchange lets the client open in one run.
MaxSessions == 2
\* Largest target depth asked of get_bulk_kline_data.
MaxTarget == 3
\* Candles per request; stands for batch_size = 1000 and for the
\* min(limit, 1000) of get_kline_data.
BatchSize == 2
\* Most executions of get_kline_data followed in one backfill.
MaxFetchCalls == 8
\* Most active users of one cycle.
MaxUsers == 2
\* Most trading cycles followed.
MaxTicks == 2
\* Most trading cycles started beside the ones of SpecSched: by
\* start_scheduler and its job together, and by manual_execution.
MaxCycles == 2
\* Most messages followed through the receive loop.
MaxRecv == 3
\* Most calls of save_candle_data with a store that can fail.
MaxSaves == 3

-----------------------------------------------------------------------------
(* Program constants.                                                      *)

\* self.max_reconnect_attempts
max_reconnect_attempts == 10
\* retry(..., max_retries=3, ...) in get_bulk_kline_data
max_retries == 3
\* get_candle_data(symbol, interval, 30) in _get_latest_candles
CandleWindow == 30

-----------------------------------------------------------------------------
(* Helpers.                                                                *)

Min(a, b) == IF a < b THEN a ELSE b

RECURSIVE Reverse(_)
Reverse(s) == IF s = <<>> THEN <<>> ELSE Append(Reverse(Tail(s)), Head(s))

\* Redis LPUSH key value: the value becomes the head of the list.
LPush(list, value) == <<value>> \o list

\* An LTRIM that keeps the tail end of the list instead.
LTrimKeepsTail(list, start, stop) ==
    SubSeq(list, IF Len(list) > stop + 1 THEN Len(list) - stop ELSE 1,
           Len(list))

\* Redis LTRIM key start stop (0-based, inclusive), for 0 <= start <= stop.
LTrim(list, start, stop) == SubSeq(list, start + 1, Min(stop + 1, Len(list)))

\* CandleData built by a writer; src is a ghost tag naming the writer.
Candle(ts, src) == [timestamp |-> ts, src |-> src]

\* Redis LRANGE key start stop (0-based, inclusive; a negative index
\* counts from the end of the list).
LRange(list, start, stop) ==
    LET n == Len(list)
        first == IF start >= 0 THEN start
                 ELSE IF n + start > 0 THEN n + start ELSE 0
        last == IF stop < 0 THEN n + stop
                ELSE IF stop < n THEN stop ELSE n - 1
    IN IF first > last THEN <<>> ELSE SubSeq(list, first + 1, last + 1)

\* CandleData(**json.loads(candle_str)) of a stored entry: the fields of
\* the candle, without the ghost tag.
ParseCandle(entry) == [timestamp |-> entry.timestamp]

\* get_candle_data(symbol, interval, count)
GetCandleData(list, count) ==
    LET candle_strings == LRange(list, 0, count - 1)
    IN [i \in 1..Len(candle_strings) |-> ParseCandle(candle_strings[i])]

-----------------------------------------------------------------------------
(* The exchange, as the writers see it.                                    *)

ConfirmValues == {"true", "false", "absent"}

\* One element of message['data'].
KlineEntries == [start : 1..MaxTs, confirm : ConfirmValues]

\* The exchange confirms each candle once, in order, after its period has
\* ended; updates of the candle still forming carry confirm false or none.
RECURSIVE ExchangeSends(_, _, _)
ExchangeSends(msg, last, now) ==
    IF msg = <<>> THEN TRUE
    ELSE LET e == Head(msg) IN
         IF e.confirm = "true"
         THEN e.start > last /\ e.start < now
              /\ ExchangeSends(Tail(msg), e.start, now)
         ELSE e.start = now /\ ExchangeSends(Tail(msg), last, now)

\* The start of the last candle confirmed once msg has been sent.
RECURSIVE LastConfirmed(_, _)
LastConfirmed(msg, last) ==
    IF msg = <<>> THEN last
    ELSE LastConfirmed(Tail(msg),
                       IF Head(msg).confirm = "true" THEN Head(msg).start
                       ELSE last)

Messages == UNION {[1..n -> KlineEntries] : n \in 0..MaxMsgLen}

\* The REST endpoint's newest n candles at time now, oldest first (the
\* candle of period now is the one still forming).
NewestCandles(n, now) == [i \in 1..n |-> Candle(now - n + i, "rest")]


-----------------------------------------------------------------------------
(* SpecStore: the candle store and its writers.                            *)
(*                                                                         *)
(* The writers are coroutines of one event loop (data-server/src/main.py): *)
(* _process_kline_data and _save_candles hold the loop from their first    *)
(* statement to their last, because save_candle_data is a plain function   *)
(* and the loops around it do not await.  loopOwner models this.  The      *)
(* store itself is a Redis server read by other processes, so the list     *)
(* between a writer's LPUSH and its LTRIM is a state of the system: the    *)
(* two commands are separate steps.                                        *)

InitStore ==
    /\ store = <<>>
    /\ clock = 1
    /\ loopOwner = "none"
    /\ wsPc = "idle"
    /\ wsQueue = <<>>
    /\ wsConfirmed = 0
    /\ wsSaved = {}
    /\ wsSeen = {}
    /\ colPc = "idle"
    /\ colQueue = <<>>
    /\ colOp = "none"
    /\ backfilled = <<>>
    /\ initialBackfill = FALSE

\* BybitWebSocketClient.__init__; the status hash has no websocket_status
\* field yet.
InitConn ==
    /\ connPc = "init"
    /\ websocket = "none"
    /\ reconnect_attempts = 0
    /\ is_connecting = FALSE
    /\ running = FALSE
    /\ websocket_status = "unset"
    /\ gaveUp = FALSE
    /\ sessions = 0
    /\ ping_task = "none"
    /\ oldPings = 0
    /\ disconnectCalled = FALSE
    /\ subscribed = FALSE

\* Before get_bulk_kline_data is called.
InitBulk ==
    /\ bulkPc = "idle"
    /\ source = {}
    /\ total_count = 0
    /\ all_candles = <<>>
    /\ end_time = 0
    /\ attempt = 0
    /\ bulkCandles = [kind |-> "none", list |-> <<>>]
    /\ result = <<>>
    /\ fetchCalls = 0
    /\ fetchFailures = 0
    /\ funcCalls = 0

\* AutoTradingScheduler.__init__, with an empty trade_logs table.
InitSched ==
    /\ cyclePc = "idle"
    /\ active_users = <<>>
    /\ userIdx = 1
    /\ successful_trades = 0
    /\ failed_trades = 0
    /\ testnet = FALSE
    /\ ledger = <<>>
    /\ counted = <<>>
    /\ threw = {}
    /\ orders = 0
    /\ ticks = 0
    /\ paths = <<>>
    /\ status_surface = [last_run |-> 0, successful_trades |-> 0,
                         failed_trades |-> 0]
    /\ place_calls = <<>>
    /\ trade_calls = <<>>

\* GPTAnalysisService.__init__: no completion requested yet.
InitDec ==
    /\ decPc = "idle"
    /\ payload = [kind |-> "none"]
    /\ user_config = [max_leverage |-> "absent", risk_level |-> "absent"]
    /\ analysis = [action |-> "hold", confidence |-> 0, leverage |-> 1,
                   reason |-> <<>>,
                   stop_loss |-> [kind |-> "none", value |-> 0],
                   take_profit |-> [kind |-> "none", value |-> 0]]

\* The locals of execute_trade before its first statement.
TradeLocalsUnset ==
    /\ balance_response = [kind |-> "none", value |-> 0]
    /\ balance_info = [sufficient |-> FALSE, available_balance |-> 0]
    /\ current_price = [kind |-> "none", value |-> 0]
    /\ order_qty = 0
    /\ trade_result = [success |-> FALSE, error |-> "none"]
    /\ reached = {}

\* BybitTradingService.__init__: no trade running.
InitTrade ==
    /\ tradePc = "idle"
    /\ TradeLocalsUnset
    /\ qtyCall = [called |-> FALSE, available_balance |-> 0,
                  current_price |-> 0, result |-> 0]

\* AutoTradingScheduler.__init__, nothing registered with schedule yet.
InitLoop ==
    /\ loopPc = "init"
    /\ is_running = FALSE
    /\ development = FALSE
    /\ jobs = 0
    /\ cycles = 0
    /\ started = 0
    /\ manual = 0
    /\ stopCalled = FALSE

\* No message has been received.
InitRecv ==
    /\ recvCount = 0
    /\ lastMsg = [kind |-> "none", data |-> <<>>]
    /\ malformedSeen = FALSE

\* save_candle_data has not been called.
InitSave ==
    /\ saves = 0
    /\ lastSave = [outcome |-> "none", before |-> <<>>]

Init ==
    /\ InitStore /\ InitConn /\ InitBulk /\ InitSched /\ InitDec /\ InitTrade
    /\ InitLoop
    /\ InitRecv
    /\ InitSave

wsLocals == <<wsPc, wsQueue, wsConfirmed, wsSaved, wsSeen>>
colLocals == <<colPc, colQueue, colOp, backfilled, initialBackfill>>

\* A candle period ends.
Tick ==
    /\ clock < MaxTs
    /\ clock' = clock + 1
    /\ UNCHANGED <<store, loopOwner, wsLocals, colLocals>>
    /\ UNCHANGED notStore

\* kline_data.get('confirm', False), as a truth value.
GetConfirmDefaultTrue(kline_data) ==
    kline_data.confirm \in {"true", "absent"}

GetConfirm(kline_data) ==
    kline_data.confirm = "true"

\* _handle_message hands a kline message to _process_kline_data; an empty
\* message['data'] returns at once.
ProcessKlineData ==
    /\ loopOwner = "none"
    /\ wsPc = "idle"
    /\ \E msg \in Messages :
        /\ ExchangeSends(msg, wsConfirmed, clock)
        /\ IF msg = <<>>
           THEN UNCHANGED <<loopOwner, wsPc, wsQueue>>
           ELSE /\ loopOwner' = "ws"
                /\ wsPc' = "loop"
                /\ wsQueue' = msg
        /\ wsConfirmed' = LastConfirmed(msg, wsConfirmed)
    /\ UNCHANGED <<store, clock, wsSaved, wsSeen, colLocals>>
    /\ UNCHANGED notStore

\* One turn of "for kline_data in message['data']" up to the LPUSH of
\* save_candle_data; after the last entry the handler returns.
ProcessKlineEntry ==
    /\ wsPc = "loop"
    /\ IF wsQueue = <<>>
       THEN /\ wsPc' = "idle"
            /\ loopOwner' = "none"
            /\ UNCHANGED <<store, wsQueue, wsConfirmed, wsSaved, wsSeen>>
       ELSE LET kline_data == Head(wsQueue) IN
            /\ wsSeen' = wsSeen \cup {kline_data.confirm}
            /\ IF ~GetConfirm(kline_data)
               THEN /\ wsQueue' = Tail(wsQueue)
                    /\ UNCHANGED <<store, loopOwner, wsPc, wsConfirmed, wsSaved>>
               ELSE /\ store' = LPush(store, Candle(kline_data.start, "ws"))
                    /\ wsSaved' = wsSaved \cup {kline_data}
                    /\ wsPc' = "trim"
                    /\ UNCHANGED <<loopOwner, wsQueue, wsConfirmed>>
    /\ UNCHANGED <<clock, colLocals>>
    /\ UNCHANGED notStore

\* The LTRIM of the stream's save_candle_data.
ProcessKlineTrim ==
    /\ wsPc = "trim"
    /\ store' = LTrim(store, 0, MaxCandles - 1)
    /\ wsQueue' = Tail(wsQueue)
    /\ wsPc' = "loop"
    /\ UNCHANGED <<clock, loopOwner, wsConfirmed, wsSaved, wsSeen, colLocals>>
    /\ UNCHANGED notStore

\* reversed_candles = list(reversed(candles))
ReversedCandles(candles) == Reverse(candles)

\* DataCollector._save_candles(candles), candles being what the backfill
\* hands over: the newest n candles of the exchange, oldest first.
SaveCandles ==
    /\ loopOwner = "none"
    /\ colPc = "idle"
    /\ \E n \in 1..Min(clock, MaxBatch) :
        LET candles == NewestCandles(n, clock) IN
        /\ colQueue' = ReversedCandles(candles)
        /\ backfilled' = candles
    /\ initialBackfill' = (store = <<>> /\ wsSaved = {} /\ colOp = "none")
    /\ colOp' = "save_candles"
    /\ colPc' = "loop"
    /\ loopOwner' = "collector"
    /\ UNCHANGED <<store, clock, wsLocals>>
    /\ UNCHANGED notStore

\* DataCollector.collect_latest_candle: get_kline_data(symbol, interval, 1)
\* and candles[0] to the store.
CollectLatestCandle ==
    /\ loopOwner = "none"
    /\ colPc = "idle"
    /\ colQueue' = NewestCandles(1, clock)
    /\ colOp' = "latest"
    /\ colPc' = "loop"
    /\ loopOwner' = "collector"
    /\ initialBackfill' = FALSE
    /\ UNCHANGED <<store, clock, wsLocals, backfilled>>
    /\ UNCHANGED notStore

\* The LPUSH of the collector's save_candle_data.
CollectorPush ==
    /\ colPc = "loop"
    /\ store' = LPush(store, Head(colQueue))
    /\ colPc' = "trim"
    /\ UNCHANGED <<clock, loopOwner, wsLocals, colQueue, colOp, backfilled,
                   initialBackfill>>
    /\ UNCHANGED notStore

\* The LTRIM of the collector's save_candle_data; after the last candle
\* the call returns.
CollectorTrim ==
    /\ colPc = "trim"
    /\ store' = LTrim(store, 0, MaxCandles - 1)
    /\ colQueue' = Tail(colQueue)
    /\ IF Tail(colQueue) = <<>>
       THEN colPc' = "idle" /\ loopOwner' = "none"
       ELSE colPc' = "loop" /\ UNCHANGED loopOwner
    /\ UNCHANGED <<clock, wsLocals, colOp, backfilled, initialBackfill>>
    /\ UNCHANGED notStore

NextStore ==
    \/ Tick
    \/ ProcessKlineData
    \/ ProcessKlineEntry
    \/ ProcessKlineTrim
    \/ SaveCandles
    \/ CollectLatestCandle
    \/ CollectorPush
    \/ CollectorTrim

SpecStore == Init /\ [][NextStore]_vars

-----------------------------------------------------------------------------
(* Claims about the candle store (checked under SpecStore).                *)

\* C1: the stored list never holds more than the cap, in any state,
\* including the states between a writer's push and its trim.
C1_LengthNeverExceedsCap == Len(store) <= MaxCandles

NewestFirst(list) ==
    \A i \in 1..Len(list) - 1 : list[i].timestamp > list[i + 1].timestamp

\* C3: after an initial backfill into the empty store, followed by any
\* number of confirmed stream candles, the list is newest-first with
\* strictly increasing timestamps oldest to newest; right after the
\* backfill its head is the newest backfilled candle.
C3_NewestFirstAfterBackfill ==
    (initialBackfill /\ colPc = "idle" /\ wsPc = "idle") =>
        /\ NewestFirst(store)
        /\ wsSaved = {} => Head(store) = backfilled[Len(backfilled)]

\* C6: the stream writes an entry to the store only if its confirm flag is
\* true; entries with confirm false or absent cause no write.
C6_OnlyConfirmedWritten ==
    /\ \A e \in wsSaved : e.confirm = "true"
    /\ \A i \in 1..Len(store) :
          store[i].src = "ws" =>
              [start |-> store[i].timestamp, confirm |-> "true"] \in wsSaved

\* C6 witness: a message with confirmed, unconfirmed and flagless entries
\* has been worked off and a stream candle is in the store.
C6_Witness ==
    /\ wsSeen = ConfirmValues
    /\ wsPc = "idle"
    /\ \E i \in 1..Len(store) : store[i].src = "ws"

\* C9: no two entries of a series carry the same timestamp.
C9_NoDuplicateTimestamps ==
    \A i, j \in 1..Len(store) :
        i # j => store[i].timestamp # store[j].timestamp

\* C20: when a writer's save_candle_data returns (its LTRIM is done),
\* get_candle_data(symbol, interval, 1) is exactly the candle that call
\* appended.
C20_ReadAfterSaveIsAppended ==
    [][/\ ProcessKlineTrim =>
             GetCandleData(store', 1) =
                <<ParseCandle(Candle(Head(wsQueue).start, "ws"))>>
       /\ CollectorTrim =>
             GetCandleData(store', 1) = <<ParseCandle(Head(colQueue))>>]_vars

\* C20 witness: the stream's save_candle_data has returned on a full
\* store, with the stream's candle at the head.
C20_Witness ==
    /\ wsPc = "loop"
    /\ wsSaved # {}
    /\ Len(store) = MaxCandles
    /\ Head(store).src = "ws"
    /\ \E i \in 2..Len(store) : store[i].src = "rest"

\* _get_latest_candles: the window the scheduler hands to analyze_candles,
\* as get_candle_data returns it.
GetLatestCandles == GetCandleData(store, CandleWindow)

\* C25: between writes, the window the scheduler reads is ordered oldest
\* to newest, its last element being the most recent candle.
C25_WindowOldestToNewest ==
    (wsPc = "idle" /\ colPc = "idle") =>
        LET candles == GetLatestCandles
        IN \A i \in 1..(Len(candles) - 1) :
               candles[i].timestamp <= candles[i + 1].timestamp

\* C31: for every count >= 0, get_candle_data(symbol, interval, count)
\* returns at most count candles (none for count = 0), and they are the
\* head of the list in stored order.
C31_ReadReturnsAtMostCount ==
    \A count \in 0..(MaxCandles + 1) :
        LET candles == GetCandleData(store, count)
        IN /\ Len(candles) <= count
           /\ \A i \in 1..Len(candles) : candles[i] = ParseCandle(store[i])

-----------------------------------------------------------------------------
(* SpecWs: BybitWebSocketClient, connect and reconnect.                    *)
(*                                                                         *)
(* connect() and _schedule_reconnect() call each other, so a reconnect     *)
(* runs inside the frame of the connect() that failed; when the innermost  *)
(* call returns, every frame above it returns without another statement    *)
(* that changes state.  connPc = "returned" is that unwinding.             *)

\* _schedule_reconnect without the return of its max-attempts branch.
ScheduleReconnectNoReturn(attempts) ==
    /\ gaveUp' = (gaveUp \/ attempts >= max_reconnect_attempts)
    /\ reconnect_attempts' = attempts + 1
    /\ connPc' = "backoff"

\* _schedule_reconnect up to its asyncio.sleep(delay), entered with
\* self.reconnect_attempts = attempts.
ScheduleReconnect(attempts) ==
    IF attempts >= max_reconnect_attempts
    THEN /\ gaveUp' = TRUE
         /\ connPc' = "returned"
         /\ reconnect_attempts' = attempts
    ELSE /\ reconnect_attempts' = attempts + 1
         /\ connPc' = "backoff"
         /\ UNCHANGED gaveUp

\* connect() up to "await websockets.connect(...)".
ConnectEntry ==
    IF is_connecting \/ websocket = "open"
    THEN connPc' = "returned" /\ UNCHANGED is_connecting
    ELSE connPc' = "connecting" /\ is_connecting' = TRUE

\* DataServer.start calls connect().
Connect ==
    /\ connPc = "init"
    /\ ConnectEntry
    /\ UNCHANGED <<websocket, reconnect_attempts, running, websocket_status,
                   gaveUp, sessions, ping_task, oldPings, disconnectCalled,
                   subscribed>>
    /\ UNCHANGED notConn

\* websockets.connect succeeds: subscribe, start the ping task (the task
\* self.ping_task named before is not cancelled), publish 'connected' and
\* enter the message loop.
ConnectSucceeds ==
    /\ connPc = "connecting"
    /\ sessions < MaxSessions
    /\ sessions' = sessions + 1
    /\ websocket' = "open"
    /\ is_connecting' = FALSE
    /\ reconnect_attempts' = 0
    /\ running' = TRUE
    /\ ping_task' = "running"
    /\ oldPings' = IF ping_task = "running" THEN oldPings + 1 ELSE oldPings
    /\ websocket_status' = "connected"
    /\ connPc' = "message_loop"
    /\ subscribed' = FALSE
    /\ UNCHANGED <<gaveUp, disconnectCalled>>
    /\ UNCHANGED notConn

\* websockets.connect succeeds and the send of _subscribe raises: the
\* except branch of connect(), after the counter was reset.
SubscribeFails ==
    /\ connPc = "connecting"
    /\ sessions < MaxSessions
    /\ sessions' = sessions + 1
    /\ websocket' = "closed"
    /\ is_connecting' = FALSE
    /\ running' = TRUE
    /\ websocket_status' = "error"
    /\ ScheduleReconnect(0)
    /\ subscribed' = FALSE
    /\ UNCHANGED <<ping_task, oldPings, disconnectCalled>>
    /\ UNCHANGED notConn

\* websockets.connect raises: the except branch of connect().
ConnectFails ==
    /\ connPc = "connecting"
    /\ is_connecting' = FALSE
    /\ websocket_status' = "error"
    /\ ScheduleReconnect(reconnect_attempts)
    /\ UNCHANGED <<websocket, running, sessions, ping_task, oldPings,
                   disconnectCalled, subscribed>>
    /\ UNCHANGED notConn

\* The subscribe confirmation arrives: _handle_message logs it and
\* returns.
ReceiveSubscribeAck ==
    /\ connPc = "message_loop"
    /\ websocket = "open"
    /\ ~subscribed
    /\ subscribed' = TRUE
    /\ UNCHANGED <<connPc, websocket, reconnect_attempts, is_connecting,
                   running, websocket_status, gaveUp, sessions, ping_task,
                   oldPings, disconnectCalled>>
    /\ UNCHANGED notConn

\* A kline message arrives and _process_kline_data publishes 'active'.
ReceiveKline ==
    /\ connPc = "message_loop"
    /\ websocket = "open"
    /\ websocket_status' = "active"
    /\ UNCHANGED <<connPc, websocket, reconnect_attempts, is_connecting,
                   running, gaveUp, sessions, ping_task, oldPings,
                   disconnectCalled, subscribed>>
    /\ UNCHANGED notConn

\* The message iteration raises ConnectionClosed.
ConnectionClosed ==
    /\ connPc = "message_loop"
    /\ websocket = "open"
    /\ websocket' = "closed"
    /\ websocket_status' = "disconnected"
    /\ ScheduleReconnect(reconnect_attempts)
    /\ UNCHANGED <<is_connecting, running, sessions, ping_task, oldPings,
                   disconnectCalled, subscribed>>
    /\ UNCHANGED notConn

\* The message iteration raises another exception.
MessageLoopError ==
    /\ connPc = "message_loop"
    /\ websocket = "open"
    /\ websocket' = "closed"
    /\ websocket_status' = "error"
    /\ ScheduleReconnect(reconnect_attempts)
    /\ UNCHANGED <<is_connecting, running, sessions, ping_task, oldPings,
                   disconnectCalled, subscribed>>
    /\ UNCHANGED notConn

\* The message iteration ends without an exception (the socket was closed
\* with a normal close code, by the server or by disconnect()):
\* _message_loop returns and so does connect().
MessageLoopEnds ==
    /\ connPc = "message_loop"
    /\ websocket' = "closed"
    /\ connPc' = "returned"
    /\ UNCHANGED <<reconnect_attempts, is_connecting, running,
                   websocket_status, gaveUp, sessions, ping_task, oldPings,
                   disconnectCalled, subscribed>>
    /\ UNCHANGED notConn

\* asyncio.sleep(delay) of _schedule_reconnect ends: connect() again.
BackoffElapsed ==
    /\ connPc = "backoff"
    /\ ConnectEntry
    /\ UNCHANGED <<websocket, reconnect_attempts, running, websocket_status,
                   gaveUp, sessions, ping_task, oldPings, disconnectCalled,
                   subscribed>>
    /\ UNCHANGED notConn

\* The ping loop self.ping_task names tests its while condition.
PingLoop ==
    /\ ping_task = "running"
    /\ ping_task' = IF running /\ websocket = "open" THEN "running"
                    ELSE "done"
    /\ UNCHANGED <<connPc, websocket, reconnect_attempts, is_connecting,
                   running, websocket_status, gaveUp, sessions, oldPings,
                   disconnectCalled, subscribed>>
    /\ UNCHANGED notConn

\* A ping loop started for an earlier socket tests its while condition; it
\* reads self.websocket, which is the socket of now.
OldPingLoop ==
    /\ oldPings > 0
    /\ oldPings' = IF running /\ websocket = "open" THEN oldPings
                   ELSE oldPings - 1
    /\ UNCHANGED <<connPc, websocket, reconnect_attempts, is_connecting,
                   running, websocket_status, gaveUp, sessions, ping_task,
                   disconnectCalled, subscribed>>
    /\ UNCHANGED notConn

\* disconnect(): clear the run flag, cancel self.ping_task, close the
\* socket if it is open.
Disconnect ==
    /\ ~disconnectCalled
    /\ connPc # "init"
    /\ disconnectCalled' = TRUE
    /\ running' = FALSE
    /\ ping_task' = IF ping_task = "running" THEN "done" ELSE ping_task
    /\ websocket' = IF websocket = "open" THEN "closed" ELSE websocket
    /\ UNCHANGED <<connPc, reconnect_attempts, is_connecting,
                   websocket_status, gaveUp, sessions, oldPings,
                   subscribed>>
    /\ UNCHANGED notConn

NextWs ==
    \/ Connect
    \/ ConnectSucceeds
    \/ SubscribeFails
    \/ ConnectFails
    \/ ReceiveSubscribeAck
    \/ ReceiveKline
    \/ ConnectionClosed
    \/ MessageLoopError
    \/ MessageLoopEnds
    \/ BackoffElapsed
    \/ PingLoop
    \/ OldPingLoop
    \/ Disconnect

SpecWs == Init /\ [][NextWs]_vars

-----------------------------------------------------------------------------
(* Claims about the WebSocket client (checked under SpecWs).               *)

\* C4: once the reconnect attempts are exhausted (10 of them made), the
\* client makes no further connection attempt.
C4_NoAttemptAfterGiveUp ==
    gaveUp => /\ connPc = "returned"
              /\ ~is_connecting
              /\ reconnect_attempts = max_reconnect_attempts

\* C4 witness: the client has given up after a socket had been open.
C4_Witness == gaveUp /\ sessions > 0 /\ connPc = "returned"

\* The values the code writes to websocket_status while it runs.
LiveStatuses == {"unset", "connected", "active", "error", "disconnected"}

\* C5: when the client gives up reconnecting, the status surface holds a
\* terminal failure status, distinct from the transient 'error' and
\* 'disconnected'.
C5_TerminalStatusRecorded == gaveUp => websocket_status \notin LiveStatuses

\* C21: after disconnect() has been called no connection attempt is
\* entered, no socket is opened and no ping loop is started, also when the
\* call came during a backoff sleep or a connection attempt.
C21_NothingStartsAfterDisconnect ==
    [][disconnectCalled =>
          /\ sessions' = sessions
          /\ (connPc' = "connecting" => connPc = "connecting")
          /\ (ping_task' = "running" => ping_task = "running")
          /\ (running' => running)]_vars

\* C22: the reconnect attempt counter goes down only in the step that
\* handles the subscribe confirmation, and there to zero; the step that
\* opens a socket leaves it alone.
C22_CounterResetOnlyWhenSubscribed ==
    [][reconnect_attempts' < reconnect_attempts =>
          /\ ~subscribed
          /\ subscribed'
          /\ reconnect_attempts' = 0]_vars

\* C23: while disconnect() has not been called, every step in which the
\* open socket terminates enters _schedule_reconnect: it ends in the
\* backoff sleep or, at the cap, in giving up.
C23_TerminationSchedulesReconnect ==
    [][/\ websocket = "open"
       /\ websocket' = "closed"
       /\ ~disconnectCalled'
       => \/ connPc' = "backoff"
          \/ gaveUp' /\ ~gaveUp]_vars

\* C36: at any time at most one ping loop of the ingestor is running, the
\* one self.ping_task names and those started for earlier sockets counted
\* together.
C36_AtMostOnePingLoop ==
    (IF ping_task = "running" THEN 1 ELSE 0) + oldPings <= 1

-----------------------------------------------------------------------------
(* SpecBackfill: BybitApiClient.get_bulk_kline_data and retry().           *)
(*                                                                         *)
(* bybit_api.py line 102 carries the "raise" that ends get_kline_data and  *)
(* the "async def" that opens get_bulk_kline_data on one line (likewise    *)
(* trading_service.py line 185); the methods are modelled as the two       *)
(* methods they are written to be.                                         *)

\* The n largest elements of a set of timestamps, largest first: the
\* order of result.list in the exchange's answer.
RECURSIVE NewestFirstList(_, _)
NewestFirstList(S, n) ==
    IF n = 0 \/ S = {} THEN <<>>
    ELSE LET m == CHOOSE x \in S : \A y \in S : y <= x
         IN <<m>> \o NewestFirstList(S \ {m}, n - 1)

\* candles.sort(key=lambda x: x.timestamp)
SortByTimestamp(list) == SortSeq(list, LAMBDA a, b : a < b)

\* get_kline_data(symbol, interval, limit, None, end) when the request
\* succeeds: "if end:" leaves the end parameter out when end is 0, and the
\* exchange answers with the newest min(limit, 1000) candles up to end.
GetKlineData(limit, end) ==
    LET eligible == IF end # 0 THEN {t \in source : t <= end} ELSE source
    IN SortByTimestamp(NewestFirstList(eligible, Min(limit, BatchSize)))

\* asyncio.iscoroutinefunction(func) answering True for every func, so
\* that retry() awaits what func returns inside its try.
IsCoroutineFunctionAlways(func) == TRUE

\* asyncio.iscoroutinefunction(func): true of an "async def" function,
\* false of a lambda, also of one whose body calls a coroutine function.
IsCoroutineFunction(func) == func = "async_def"

\* The func get_bulk_kline_data hands to retry():
\* lambda: self.get_kline_data(symbol, interval, current_batch_size, None,
\* end_time).
FetchFunc == "lambda"

\* new_candles: the candles of the batch whose timestamp is not collected.
NewCandles(batch, collected) ==
    SelectSeq(batch, LAMBDA c : \A i \in 1..Len(collected) : collected[i] # c)

\* all_candles[-total_count:] if len(all_candles) > total_count else
\* all_candles
LastN(list, n) ==
    IF Len(list) > n THEN SubSeq(list, Len(list) - n + 1, Len(list))
    ELSE list

\* get_bulk_kline_data(symbol, interval, total_count) is called at time
\* now: the first test of "while len(all_candles) < total_count".
GetBulkKlineData ==
    /\ bulkPc = "idle"
    /\ \E now \in 1..MaxTs, S \in SUBSET (1..MaxTs), T \in 0..MaxTarget :
        /\ \A t \in S : t <= now
        /\ source' = S
        /\ total_count' = T
        /\ end_time' = now
        /\ IF 0 < T
           THEN bulkPc' = "retry" /\ result' = <<>>
           ELSE bulkPc' = "returned" /\ result' = LastN(<<>>, T)
    /\ all_candles' = <<>>
    /\ attempt' = 0
    /\ funcCalls' = 0
    /\ UNCHANGED <<bulkCandles, fetchCalls, fetchFailures>>
    /\ UNCHANGED notBulk

\* One turn of retry()'s "for attempt in range(max_retries + 1)".  A
\* coroutine function is awaited inside the try, so that its exception
\* reaches the except branch; any other func is called, and what it
\* returns is returned as it is.
RetryAttempt ==
    /\ bulkPc = "retry"
    /\ funcCalls' = funcCalls + 1
    /\ IF IsCoroutineFunction(FetchFunc)
       THEN \E ok \in BOOLEAN :
              /\ fetchCalls < MaxFetchCalls
              /\ fetchCalls' = fetchCalls + 1
              /\ IF ok
                 THEN /\ bulkCandles' =
                           [kind |-> "list",
                            list |-> GetKlineData(
                                Min(BatchSize, total_count - Len(all_candles)),
                                end_time)]
                      /\ bulkPc' = "body"
                      /\ UNCHANGED <<attempt, fetchFailures>>
                 ELSE /\ fetchFailures' = fetchFailures + 1
                      /\ IF attempt = max_retries
                         THEN bulkPc' = "raised" /\ UNCHANGED attempt
                         ELSE bulkPc' = "retry" /\ attempt' = attempt + 1
                      /\ UNCHANGED bulkCandles
       ELSE /\ bulkCandles' = [kind |-> "coroutine", list |-> <<>>]
            /\ bulkPc' = "body"
            /\ UNCHANGED <<attempt, fetchCalls, fetchFailures>>
    /\ UNCHANGED <<source, total_count, all_candles, end_time, result>>
    /\ UNCHANGED notBulk

\* The rest of the while body, from "if not candles" to the next test of
\* the while condition, and the final sort and cut once the loop is left.
\* A coroutine object is true, and iterating it raises TypeError, which
\* the except branch of get_bulk_kline_data logs and raises again.
BatchBody ==
    /\ bulkPc = "body"
    /\ IF bulkCandles.kind = "coroutine"
       THEN /\ bulkPc' = "raised"
            /\ UNCHANGED <<all_candles, end_time, result>>
       ELSE LET batch == bulkCandles.list
                merged == IF batch = <<>> THEN all_candles
                          ELSE NewCandles(batch, all_candles) \o all_candles
            IN /\ all_candles' = merged
               /\ end_time' = IF batch = <<>> THEN end_time
                              ELSE batch[1] - 1
               /\ IF batch # <<>> /\ Len(merged) < total_count
                  THEN bulkPc' = "retry" /\ UNCHANGED result
                  ELSE /\ bulkPc' = "returned"
                       /\ result' = LastN(SortByTimestamp(merged),
                                          total_count)
    /\ attempt' = 0
    /\ fetchFailures' = 0
    /\ funcCalls' = IF bulkPc' = "retry" THEN 0 ELSE funcCalls
    /\ UNCHANGED <<source, total_count, bulkCandles, fetchCalls>>
    /\ UNCHANGED notBulk

NextBackfill ==
    \/ GetBulkKlineData
    \/ RetryAttempt
    \/ BatchBody

SpecBackfill == Init /\ [][NextBackfill]_vars

-----------------------------------------------------------------------------
(* Claims about the backfill (checked under SpecBackfill).                 *)

StrictlyIncreasing(list) ==
    \A i \in 1..Len(list) - 1 : list[i] < list[i + 1]

\* C7: against a source holding at least T candles up to now,
\* get_bulk_kline_data with target depth T returns exactly T candles with
\* strictly increasing timestamps.
C7_BulkReturnsExactlyTarget ==
    (bulkPc \in {"returned", "raised"} /\ Cardinality(source) >= total_count)
        => /\ bulkPc = "returned"
           /\ Len(result) = total_count
           /\ StrictlyIncreasing(result)

\* C8: the backfill fails only after the fetch of one batch has failed on
\* every allowed attempt.
C8_FailsOnlyAfterEveryAttempt ==
    bulkPc = "raised" => fetchFailures >= max_retries

\* C30: for one batch of the backfill, retry() has called the fetch
\* function at most 3 times when the batch's failure is raised to
\* get_bulk_kline_data, and at most 3 times at any moment before.
C30_FetchCalledAtMostThrice == funcCalls <= 3

\* C30 witness: a batch has failed and the failure was raised to the
\* backfill, the fetch function having been called once for it.
C30_Witness ==
    /\ bulkPc = "raised"
    /\ total_count > 0
    /\ funcCalls = 1

\* C37: once get_bulk_kline_data has ended against a source holding fewer
\* than T candles, it has returned, without an error, every candle of the
\* source.
C37_ShortSourceYieldsAll ==
    (bulkPc \in {"returned", "raised"} /\ Cardinality(source) < total_count)
        => /\ bulkPc = "returned"
           /\ {result[i] : i \in 1..Len(result)} = source

-----------------------------------------------------------------------------
(* SpecSched: AutoTradingScheduler.execute_trading_cycle and               *)
(* BybitTradingService.execute_trade.                                      *)

\* What the outside world does during one user's turn: the candle window
\* read from the store (or the loop body raising before the user is
\* handed on), the decision (or the decision call raising), how far
\* execute_trade gets (a statement of its try block raises, the balance
\* is insufficient, no price is found, the quantity is not positive, or
\* the order is placed and the exchange rejects or accepts it), and
\* whether the INSERT into trade_logs goes through.  What comes after
\* a missing window or a raising decision call is held at one value, as
\* is the INSERT of a trade that writes no row.
UserEnvs ==
    {env \in [window   : {"empty", "some", "raises"},
              decision : {"hold", "buy", "sell", "throws"},
              trade    : {"raises", "balance", "price", "qty", "rejected",
                          "accepted"},
              insert   : BOOLEAN] :
        /\ env.window # "some" => env.decision = "hold"
        /\ (env.window # "some" \/ env.decision = "throws")
              => env.trade = "balance"
        /\ env.trade \in {"balance", "price", "qty"} => ~env.insert}

\* The names bound where _place_order builds order_data: its parameters,
\* the locals assigned before, and the names of the module.
PlaceOrderNames ==
    {"self", "api_key", "api_secret", "symbol", "action", "qty", "price",
     "analysis"}
    \cup {"endpoint", "side"}
    \cup {"os", "sys", "httpx", "hmac", "hashlib", "time", "Dict", "Any",
          "Optional", "Decimal", "GPTAnalysis", "TradeAction",
          "execute_insert", "log_info", "log_error"}

\* The names the order_data literal reads.
OrderDataNames == {"symbol", "side", "qty", "user_id", "time"}

\* Building order_data raises NameError when it reads an unbound name.
OrderDataRaises == ~(OrderDataNames \subseteq PlaceOrderNames)

\* _place_order: every exception, the NameError included, is caught and
\* becomes a failed result; in test mode the fill is simulated; otherwise
\* the order is posted.  built says that order_data came into being;
\* order_link_user is the user id its orderLinkId carries (0: none), and
\* the caller's id is not among the arguments.
PlaceOrder(env) ==
    IF OrderDataRaises
    THEN [success |-> FALSE, sent |-> 0, simulated |-> FALSE,
          built |-> FALSE, order_link_user |-> 0]
    ELSE IF testnet
    THEN [success |-> TRUE, sent |-> 0, simulated |-> TRUE,
          built |-> TRUE, order_link_user |-> 0]
    ELSE [success |-> env.trade = "accepted", sent |-> 1,
          simulated |-> FALSE, built |-> TRUE, order_link_user |-> 0]

\* status = "success" if order_result.get('success') else "failed"
TradeLogStatus(success) == IF success THEN "success" ELSE "failed"

\* _save_trade_log: one row, unless the INSERT fails, which is logged and
\* swallowed.
SaveTradeLog(user_id, success, env) ==
    IF env.insert
    THEN <<[user_id |-> user_id,
            status |-> TradeLogStatus(success),
            tick |-> ticks]>>
    ELSE <<>>

\* execute_trade whose except branch writes no trade log.
ExecuteTradeNoLogOnError(user_id, env) ==
    IF env.trade = "raises"
    THEN [success |-> FALSE, rows |-> <<>>, sent |-> 0, placed |-> 0,
          inserts |-> <<>>, raised |-> TRUE]
    ELSE IF env.trade \in {"balance", "price", "qty"}
    THEN [success |-> FALSE, rows |-> <<>>, sent |-> 0, placed |-> 0,
          inserts |-> <<>>, raised |-> FALSE]
    ELSE LET order_result == PlaceOrder(env)
         IN [success |-> order_result.success,
             rows |-> SaveTradeLog(user_id, order_result.success, env),
             sent |-> order_result.sent, placed |-> 1,
             inserts |-> <<TradeLogStatus(order_result.success)>>,
             raised |-> FALSE]

\* execute_trade: the balance, price and quantity checks return early;
\* the trade log is written once an order result exists, and by the
\* except branch.  placed counts the _place_order calls made, inserts
\* lists the status of each INSERT _save_trade_log issued (whether or
\* not it went through), raised says that the except branch ran.
ExecuteTrade(user_id, env) ==
    IF env.trade = "raises"
    THEN [success |-> FALSE, rows |-> SaveTradeLog(user_id, FALSE, env),
          sent |-> 0, placed |-> 0,
          inserts |-> <<TradeLogStatus(FALSE)>>, raised |-> TRUE]
    ELSE IF env.trade \in {"balance", "price", "qty"}
    THEN [success |-> FALSE, rows |-> <<>>, sent |-> 0, placed |-> 0,
          inserts |-> <<>>, raised |-> FALSE]
    ELSE LET order_result == PlaceOrder(env)
         IN [success |-> order_result.success,
             rows |-> SaveTradeLog(user_id, order_result.success, env),
             sent |-> order_result.sent, placed |-> 1,
             inserts |-> <<TradeLogStatus(order_result.success)>>,
             raised |-> FALSE]

\* The except branch of _process_user_trading, returning success True.
ProcessingErrorCountedOk ==
    [success |-> TRUE, rows |-> <<>>, sent |-> 0, placed |-> 0,
     inserts |-> <<>>, raised |-> FALSE]

\* The except branch of _process_user_trading.
ProcessingError ==
    [success |-> FALSE, rows |-> <<>>, sent |-> 0, placed |-> 0,
     inserts |-> <<>>, raised |-> FALSE]

\* The except branch inside the for loop of execute_trading_cycle: the
\* user is counted as failed and the loop goes on.
UserError ==
    [success |-> FALSE, rows |-> <<>>, sent |-> 0, placed |-> 0,
     inserts |-> <<>>, raised |-> FALSE]

\* _process_user_trading with the hold branch returning success False.
ProcessUserTradingHoldFails(user_id, env) ==
    IF env.decision = "throws" THEN ProcessingError
    ELSE IF env.decision = "hold"
    THEN [success |-> FALSE, rows |-> <<>>, sent |-> 0, placed |-> 0,
          inserts |-> <<>>, raised |-> FALSE]
    ELSE ExecuteTrade(user_id, env)

\* _process_user_trading without its hold branch: execute_trade is called
\* whatever the validated action is.
ProcessUserTradingTradesOnHold(user_id, env) ==
    IF env.decision = "throws" THEN ProcessingError
    ELSE ExecuteTrade(user_id, env)

\* _process_user_trading
ProcessUserTrading(user_id, env) ==
    IF env.decision = "throws" THEN ProcessingError
    ELSE IF env.decision = "hold"
    THEN [success |-> TRUE, rows |-> <<>>, sent |-> 0, placed |-> 0,
          inserts |-> <<>>, raised |-> FALSE]
    ELSE ExecuteTrade(user_id, env)

\* execute_trading_cycle up to the for loop: load the active users; with
\* none the cycle returns at once.
StartCycle ==
    /\ cyclePc \in {"idle", "done"}
    /\ ticks < MaxTicks
    /\ ticks' = ticks + 1
    /\ \E n \in 0..MaxUsers, tn \in BOOLEAN :
        /\ active_users' = [i \in 1..n |-> i]
        /\ testnet' = IF ticks = 0 THEN tn ELSE testnet
        /\ cyclePc' = IF n = 0 THEN "idle" ELSE "users"
    /\ userIdx' = 1
    /\ successful_trades' = 0
    /\ failed_trades' = 0
    /\ counted' = <<>>
    /\ threw' = {}
    /\ paths' = <<>>
    /\ place_calls' = <<>>
    /\ trade_calls' = <<>>
    /\ UNCHANGED <<ledger, orders, status_surface>>
    /\ UNCHANGED notSched

\* The branch of the loop body a user's turn takes.
PathOf(env) ==
    IF env.window = "raises" THEN "raises"
    ELSE IF env.window = "empty" THEN "empty"
    ELSE IF env.decision \in {"throws", "hold"} THEN env.decision
    ELSE "trade"

\* The turn gets as far as the _place_order call of execute_trade.
ReachesPlaceOrder(env) ==
    PathOf(env) = "trade" /\ env.trade \in {"rejected", "accepted"}

\* One turn of "for user in active_users".
ProcessUser ==
    /\ cyclePc = "users"
    /\ userIdx <= Len(active_users)
    /\ \E env \in UserEnvs :
        LET user_id == active_users[userIdx]
            r == IF env.window = "raises" THEN UserError
                 ELSE IF env.window = "empty"
                 THEN [success |-> FALSE, rows |-> <<>>, sent |-> 0, placed |-> 0,
          inserts |-> <<>>, raised |-> FALSE]
                 ELSE ProcessUserTrading(user_id, env)
        IN /\ successful_trades' =
                  IF r.success THEN successful_trades + 1
                  ELSE successful_trades
           /\ failed_trades' =
                  IF r.success THEN failed_trades ELSE failed_trades + 1
           /\ ledger' = ledger \o r.rows
           /\ orders' = orders + r.sent
           /\ counted' = Append(counted,
                                IF r.success THEN "success" ELSE "failed")
           /\ threw' = IF \/ env.window = "raises"
                          \/ env.window = "some" /\ env.decision = "throws"
                       THEN threw \cup {user_id} ELSE threw
           /\ paths' = Append(paths, PathOf(env))
           /\ place_calls' =
                  IF r.placed > 0
                  THEN Append(place_calls,
                              [user_id |-> user_id, testnet |-> testnet,
                               order_result |-> PlaceOrder(env)])
                  ELSE place_calls
           /\ trade_calls' =
                  IF r.placed > 0 \/ r.raised
                  THEN Append(trade_calls,
                              [user_id |-> user_id, placed |-> r.placed,
                               raised |-> r.raised,
                               order_success |-> r.success,
                               inserts |-> r.inserts])
                  ELSE trade_calls
    /\ userIdx' = userIdx + 1
    /\ UNCHANGED <<cyclePc, active_users, testnet, ticks, status_surface>>
    /\ UNCHANGED notSched

\* _record_execution_result: auto_server_last_run and the two counters
\* are written to the status hash (the cycle is named by its number).
RecordExecutionResult(successful, failed) ==
    [last_run |-> ticks, successful_trades |-> successful,
     failed_trades |-> failed]

\* After the loop: _record_execution_result and the end of the cycle.
FinishCycle ==
    /\ cyclePc = "users"
    /\ userIdx > Len(active_users)
    /\ cyclePc' = "done"
    /\ status_surface' =
           RecordExecutionResult(successful_trades, failed_trades)
    /\ UNCHANGED <<active_users, userIdx, successful_trades, failed_trades,
                   testnet, ledger, counted, threw, orders, ticks, paths,
                   place_calls, trade_calls>>
    /\ UNCHANGED notSched

NextSched ==
    \/ StartCycle
    \/ ProcessUser
    \/ FinishCycle

SpecSched == Init /\ [][NextSched]_vars

-----------------------------------------------------------------------------
(* Claims about the scheduler (checked under SpecSched).                   *)

\* The rows the running cycle has written for one user.
RowsOf(user_id) ==
    {i \in 1..Len(ledger) :
        ledger[i].user_id = user_id /\ ledger[i].tick = ticks}

\* C2: a cycle leaves exactly one row in the trade ledger for each active
\* user it processed, whatever the outcome.
C2_OneLedgerEntryPerUser ==
    cyclePc = "done" =>
        \A i \in 1..Len(active_users) :
            Cardinality(RowsOf(active_users[i])) = 1

\* C10: an exception raised while one user is processed is counted as one
\* failed trade, and every user after it is still processed in the cycle.
C10_ExceptionIsolated ==
    /\ \A i \in 1..Len(counted) :
          active_users[i] \in threw => counted[i] = "failed"
    /\ cyclePc = "done" =>
          /\ Len(counted) = Len(active_users)
          /\ failed_trades =
                Cardinality({i \in 1..Len(counted) : counted[i] = "failed"})

\* C10 witness: a finished cycle in which a user's decision call raised
\* and a later user was counted as a success.
C10_Witness ==
    /\ cyclePc = "done"
    /\ \E i, j \in 1..Len(counted) :
          /\ i < j
          /\ active_users[i] \in threw
          /\ counted[j] = "success"

\* C11: at the end of a tick with active users the two counters add up to
\* the number of active users, every user having incremented exactly one
\* of them: a hold counts as a success; an empty window, an exception and
\* a failed order count as failures.
C11_CountersAddUp ==
    /\ Len(counted) = successful_trades + failed_trades
    /\ Len(paths) = Len(counted)
    /\ \A i \in 1..Len(paths) :
          /\ paths[i] = "hold" => counted[i] = "success"
          /\ paths[i] \in {"raises", "empty", "throws"} =>
                counted[i] = "failed"
    /\ successful_trades =
          Cardinality({i \in 1..Len(counted) : counted[i] = "success"})
    /\ cyclePc = "done" =>
          successful_trades + failed_trades = Len(active_users)

\* C11 witness: a finished tick of two users, one held and one met an
\* empty window.
C11_Witness ==
    /\ cyclePc = "done"
    /\ successful_trades = 1
    /\ failed_trades = 1
    /\ \E i, j \in 1..Len(paths) : paths[i] = "hold" /\ paths[j] = "empty"

\* C19: once a tick is over, the status surface carries that tick as the
\* last run, with the tick's counters.
C19_StatusPublishedEveryTick ==
    (cyclePc \in {"idle", "done"} /\ ticks > 0) =>
        status_surface.last_run = ticks

-----------------------------------------------------------------------------
(* SpecDecision: GPTAnalysisService.analyze_candles, _parse_gpt_response,  *)
(* _extract_from_text and validate_analysis.                               *)
(*                                                                         *)
(* Confidences are counted in tenths (0.7 is 7); the leverage of a payload *)
(* is counted in tenths as well, so that int() has something to truncate.  *)
(* stop_loss and take_profit are counted in thousandths (0.01 is 10).      *)

\* A JSON value of a payload: a number, a missing key, the JSON null, a
\* value of the wrong type, or NaN (which json.loads accepts).
Num(n) == [kind |-> "num", value |-> n]
NoNum(kind) == [kind |-> kind, value |-> 0]

ConfidenceInputs ==
    {Num(n) : n \in {-5, 0, 5, 6, 7, 8, 10, 15}}
    \cup {NoNum("absent"), NoNum("bad"), NoNum("nan")}

LeverageInputs ==
    {Num(n) : n \in {-15, -5, 0, 10, 27, 100, 200, 205, 500}}
    \cup {NoNum("absent"), NoNum("bad"), NoNum("nan")}

\* Python's None, as the value of an optional field.
None == [kind |-> "none", value |-> 0]

\* Values of the optional keys stop_loss and take_profit: a number, a
\* missing key, the JSON null, or a string that is no number.
StopInputs ==
    {Num(n) : n \in {-50, 0, 5, 10, 50, 100, 150, 200, 300}}
    \cup {NoNum("absent"), NoNum("null"), NoNum("bad")}

\* What response.choices[0].message.content can be: a JSON object, valid
\* JSON that is no object, text that is no JSON, or None; "api_error" is
\* the completion call raising.  The optional keys stop_loss and
\* take_profit vary on one payload (buy, 0.8, 10) and are absent elsewhere.
Payloads ==
    [kind : {"json"},
     action : {"buy", "SELL", "hold", "wait", "absent", "bad"},
     confidence : ConfidenceInputs,
     leverage : LeverageInputs,
     reason : {"given", "empty", "absent", "null"},
     text : {"none"},
     stop_loss : {NoNum("absent")}, take_profit : {NoNum("absent")}]
    \cup
    [kind : {"json"}, action : {"buy"}, confidence : {Num(8)},
     leverage : {Num(100)}, reason : {"given"}, text : {"none"},
     stop_loss : StopInputs, take_profit : StopInputs]
    \cup
    [kind : {"text"}, action : {"absent"}, confidence : {NoNum("absent")},
     leverage : {NoNum("absent")}, reason : {"absent"},
     text : {"buy", "sell", "both", "neither"},
     stop_loss : {NoNum("absent")}, take_profit : {NoNum("absent")}]
    \cup
    [kind : {"json_other", "none", "api_error"}, action : {"absent"},
     confidence : {NoNum("absent")}, leverage : {NoNum("absent")},
     reason : {"absent"}, text : {"none"},
     stop_loss : {NoNum("absent")}, take_profit : {NoNum("absent")}]

\* user_config as validate_analysis can be handed it: max_leverage an int,
\* a missing key or None (_process_user_trading copies the column of the
\* user's row, whatever it holds).
UserConfigs ==
    [max_leverage : {Num(n) : n \in {1, 5, 10, 25}}
                        \cup {NoNum("absent"), NoNum("null")},
     risk_level : {"low", "medium", "high", "other", "absent"}]

\* GPTAnalysis(...) built without the optional fields.
GPTAnalysis(action, confidence, leverage, reason) ==
    [action |-> action, confidence |-> confidence, leverage |-> leverage,
     reason |-> reason, stop_loss |-> None, take_profit |-> None]

\* str.lower() on the action names that occur.
Lower(str) == IF str = "SELL" THEN "sell" ELSE str

\* int() of a number given in tenths: truncation towards zero.
IntOf(tenths) ==
    IF tenths >= 0 THEN tenths \div 10 ELSE -((-tenths) \div 10)

\* max(lo, min(hi, x)) as Python evaluates it; a NaN x loses every
\* comparison, so min keeps hi.
Clamp(lo, hi, x) ==
    LET m == IF x.kind = "nan" THEN hi
             ELSE IF x.value < hi THEN x.value ELSE hi
    IN IF m > lo THEN m ELSE lo

\* "x = response_data.get(key); if x: x = max(lo, min(hi, float(x)))"
\* for a key holding no string: None and 0 are falsy and stay as they
\* are.
OptionalClamp(lo, hi, x) ==
    IF x.kind \in {"absent", "null"} THEN None
    ELSE IF x.value = 0 THEN Num(0)
    ELSE Num(Clamp(lo, hi, x))

\* The generic except of _parse_gpt_response.
ParseFailed == GPTAnalysis("hold", 0, 1, <<"parse_failed">>)

\* _extract_from_text with a default confidence of 0.9.
ExtractFromTextConfident(p) ==
    GPTAnalysis(IF p.text \in {"buy", "both"} THEN "buy"
                ELSE IF p.text = "sell" THEN "sell" ELSE "hold",
                9, 1, <<"text">>)

\* _extract_from_text
ExtractFromText(p) ==
    GPTAnalysis(IF p.text \in {"buy", "both"} THEN "buy"
                ELSE IF p.text = "sell" THEN "sell" ELSE "hold",
                5, 1, <<"text">>)

\* The action of a payload, lower-cased, without the test against the
\* three known actions.
ActionOfUnchecked(p) ==
    IF p.action = "absent" THEN "hold" ELSE Lower(p.action)

\* action = response_data.get('action', 'hold').lower(), replaced by
\* 'hold' when it is none of the three known actions.
ActionOf(p) ==
    LET action == IF p.action = "absent" THEN "hold" ELSE Lower(p.action)
    IN IF action \in {"buy", "sell", "hold"} THEN action ELSE "hold"

\* _parse_gpt_response
ParseGptResponse(p) ==
    IF p.kind = "text" THEN ExtractFromText(p)
    ELSE IF p.kind # "json" THEN ParseFailed
    ELSE IF p.action = "bad" THEN ParseFailed
    ELSE IF p.confidence.kind = "bad" THEN ParseFailed
    ELSE IF p.leverage.kind \in {"bad", "nan"} THEN ParseFailed
    ELSE IF p.reason = "null" THEN ParseFailed
    ELSE IF p.stop_loss.kind = "bad" THEN ParseFailed
    ELSE IF p.take_profit.kind = "bad" THEN ParseFailed
    ELSE LET action == ActionOf(p)
             confidence == Clamp(0, 10, IF p.confidence.kind = "absent"
                                        THEN Num(0) ELSE p.confidence)
             leverage == Clamp(1, 20,
                               IF p.leverage.kind = "absent" THEN Num(1)
                               ELSE Num(IntOf(p.leverage.value)))
             reason == IF p.reason = "empty" THEN <<>>
                       ELSE IF p.reason = "absent" THEN <<"default">>
                       ELSE <<"given">>
             stop_loss == OptionalClamp(10, 100, p.stop_loss)
             take_profit == OptionalClamp(10, 200, p.take_profit)
         IN [GPTAnalysis(action, confidence, leverage, reason)
                EXCEPT !.stop_loss = stop_loss,
                       !.take_profit = take_profit]

\* analyze_candles: the parsed answer, or hold when the call raises.
AnalyzeCandlesResult(p) ==
    IF p.kind = "api_error"
    THEN GPTAnalysis("hold", 0, 1, <<"analysis_failed">>)
    ELSE ParseGptResponse(p)

\* The confidence threshold of a risk level, always 0.7.
ConfidenceThresholdFlat(risk_level) == 7

\* The confidence threshold of a risk level.
ConfidenceThreshold(risk_level) ==
    CASE risk_level = "low" -> 8
      [] risk_level = "medium" -> 7
      [] risk_level = "high" -> 6
      [] OTHER -> 7

\* The leverage validate_analysis passes on, without the user's cap.
CapLeverageNoCap(leverage, config) == leverage

\* The leverage validate_analysis passes on.
CapLeverage(leverage, config) ==
    LET max_leverage == IF config.max_leverage.kind = "absent" THEN 10
                        ELSE config.max_leverage.value
    IN IF leverage > max_leverage THEN max_leverage ELSE leverage

\* validate_analysis: the analysis it was given, with leverage, action
\* and reason adjusted.  With max_leverage None the comparison
\* "analysis.leverage > max_leverage" raises TypeError before anything is
\* adjusted, and the except branch returns the analysis as it came.
ValidateAnalysisResult(a, config) ==
    IF config.max_leverage.kind = "null"
    THEN a
    ELSE LET leverage == CapLeverage(a.leverage, config)
             confidence_threshold == ConfidenceThreshold(config.risk_level)
         IN IF a.confidence < confidence_threshold
            THEN [a EXCEPT !.action = "hold", !.leverage = leverage,
                           !.reason = a.reason \o <<"below_threshold">>]
            ELSE [a EXCEPT !.leverage = leverage]

\* _process_user_trading calls analyze_candles for a user.
AnalyzeCandles ==
    /\ decPc = "idle"
    /\ \E p \in Payloads, config \in UserConfigs :
        /\ payload' = p
        /\ user_config' = config
        /\ analysis' = AnalyzeCandlesResult(p)
    /\ decPc' = "analysed"
    /\ UNCHANGED notDec

\* ... and then validate_analysis on what came back.
ValidateAnalysis ==
    /\ decPc = "analysed"
    /\ analysis' = ValidateAnalysisResult(analysis, user_config)
    /\ decPc' = "validated"
    /\ UNCHANGED <<payload, user_config>>
    /\ UNCHANGED notDec

\* _process_user_trading has acted on the decision; its locals are gone.
ReturnAnalysis ==
    /\ decPc = "validated"
    /\ decPc' = "idle"
    /\ payload' = [kind |-> "none"]
    /\ user_config' = [max_leverage |-> "absent", risk_level |-> "absent"]
    /\ analysis' = GPTAnalysis("hold", 0, 1, <<>>)
    /\ UNCHANGED notDec

NextDecision ==
    \/ AnalyzeCandles
    \/ ValidateAnalysis
    \/ ReturnAnalysis

SpecDecision == Init /\ [][NextDecision]_vars

-----------------------------------------------------------------------------
(* Claims about the decision engine (checked under SpecDecision).          *)

\* The payload is a JSON object whose confidence and leverage are numbers.
NumericPayload ==
    /\ payload.kind = "json"
    /\ payload.confidence.kind = "num"
    /\ payload.leverage.kind = "num"

\* C12: for a JSON payload with numeric confidence and leverage and a user
\* max_leverage of at least 1, the validated decision has its confidence
\* in [0, 1], its leverage in [1, 20] and at most max_leverage.
C12_ValidatedWithinBounds ==
    (decPc = "validated" /\ NumericPayload
        /\ user_config.max_leverage.kind = "num") =>
        /\ analysis.confidence >= 0
        /\ analysis.confidence <= 10
        /\ analysis.leverage >= 1
        /\ analysis.leverage <= 20
        /\ analysis.leverage <= user_config.max_leverage.value

\* C12 witness: confidence 1.5 has become 1.0 and leverage 50 under a
\* max_leverage of 10 has become 10.
C12_Witness ==
    /\ decPc = "validated"
    /\ NumericPayload
    /\ payload.confidence.value = 15
    /\ payload.leverage.value = 500
    /\ user_config.max_leverage = Num(10)
    /\ analysis.confidence = 10
    /\ analysis.leverage = 10

C26_StopsWithinBounds ==
    /\ analysis.stop_loss # None =>
          analysis.stop_loss.value >= 10 /\ analysis.stop_loss.value <= 100
    /\ analysis.take_profit # None =>
          /\ analysis.take_profit.value >= 10
          /\ analysis.take_profit.value <= 200

\* The completion call raised, or its content is not a JSON object, or a
\* field of the object has a type the parser cannot convert.
InternalFailure ==
    \/ payload.kind \in {"api_error", "text", "json_other", "none"}
    \/ /\ payload.kind = "json"
       /\ \/ payload.action = "bad"
          \/ payload.confidence.kind = "bad"
          \/ payload.leverage.kind \in {"bad", "nan"}
          \/ payload.reason = "null"
          \/ payload.stop_loss.kind = "bad"
          \/ payload.take_profit.kind = "bad"

\* C27: when the completion call or the parsing of its answer fails
\* (call error, invalid JSON, non-numeric or null field), the decision
\* analyze_candles returns is a hold with a non-empty reason.
C27_FailureReturnsHold ==
    (decPc = "analysed" /\ InternalFailure) =>
        /\ analysis.action = "hold"
        /\ analysis.reason # <<>>

\* C28: the decision parsed from a JSON object has action hold whenever
\* the object's action is absent or is a string other than buy, sell or
\* hold in any letter case; an upper-case SELL is a sell.
C28_UnknownActionHolds ==
    (decPc = "analysed" /\ payload.kind = "json") =>
        /\ payload.action \in {"absent", "wait"} => analysis.action = "hold"
        /\ (payload.action = "SELL" /\ ~InternalFailure) =>
              analysis.action = "sell"

\* C28 witness: an object with action "wait" and confidence 0.8 was parsed
\* without failure into a hold of confidence 0.8, and one without an
\* action likewise.
C28_Witness ==
    /\ decPc = "analysed"
    /\ payload.kind = "json"
    /\ payload.action \in {"wait", "absent"}
    /\ payload.confidence = Num(8)
    /\ analysis.confidence = 8
    /\ analysis.action = "hold"

\* C38: a decision validate_analysis has returned as buy or sell has a
\* confidence of at least the threshold of the user's risk level (0.8 for
\* low, 0.6 for high, 0.7 for medium and for every other or missing
\* level), whatever the user's max_leverage is, None and a missing key
\* included.
C38_NoUnfilteredTrade ==
    (decPc = "validated" /\ analysis.action \in {"buy", "sell"}) =>
        analysis.confidence >=
            (CASE user_config.risk_level = "low" -> 8
               [] user_config.risk_level = "high" -> 6
               [] OTHER -> 7)

-----------------------------------------------------------------------------
(* Claims about order placement (checked under SpecSched).                 *)

\* C15: in test mode every _place_order call returns a successful
\* simulated fill and sends no request to the exchange.
C15_TestModeSimulatesFill ==
    \A i \in 1..Len(place_calls) :
        place_calls[i].testnet =>
            /\ place_calls[i].order_result.success
            /\ place_calls[i].order_result.simulated
            /\ place_calls[i].order_result.sent = 0

\* C16: every _place_order call builds an order whose orderLinkId carries
\* the id of the user the order is placed for.
C16_OrderCarriesUserToken ==
    \A i \in 1..Len(place_calls) :
        /\ place_calls[i].order_result.built
        /\ place_calls[i].order_result.order_link_user =
              place_calls[i].user_id

\* C29: in one cycle a user's turn makes at most one _place_order call,
\* and makes it only when the validated action is buy or sell; a turn that
\* ends in a hold, an empty window or an exception makes no call and
\* sends no order, and no user gets a second call in the cycle.
C29_AtMostOnePlacementPerUser ==
    [][userIdx' = userIdx + 1 =>
          /\ Len(place_calls') <= Len(place_calls) + 1
          /\ orders' <= orders + 1
          /\ orders' > orders => place_calls' # place_calls
          /\ paths'[userIdx] # "trade" =>
                place_calls' = place_calls /\ orders' = orders
          /\ \A i, j \in 1..Len(place_calls') :
                i # j => place_calls'[i].user_id # place_calls'[j].user_id]_vars

\* C29 witness: in a cycle of two users the first held and placed no
\* order, the second traded and has exactly one placement.
C29_Witness ==
    /\ Len(paths) = 2
    /\ paths[1] = "hold"
    /\ paths[2] = "trade"
    /\ Len(place_calls) = 1
    /\ place_calls[1].user_id = active_users[2]

-----------------------------------------------------------------------------
(* SpecTrade: BybitTradingService.execute_trade step by step, with the     *)
(* numbers of the balance, the price and the quantity.                     *)
(*                                                                         *)
(* Balances and prices are whole USDT; a quantity is counted in units of   *)
(* min_qty = 0.000001, and the arithmetic is exact where the code's is     *)
(* floating point.                                                         *)

\* The answers to GET /v5/account/wallet-balance: the request or its
\* decoding raises; retCode is not 0; no USDT coin is listed; the USDT
\* amount does not parse as a number; or a USDT amount.
BalanceResponses ==
    [kind : {"error", "retcode", "no_usdt", "bad_amount"}, value : {0}]
    \cup [kind : {"usdt"}, value : {0, 5, 10, 11, 50}]

\* The answers to GET /v5/market/tickers: the request raises; retCode is
\* not 0; the list is empty; or a lastPrice (0 when the field is missing).
PriceResponses ==
    [kind : {"error", "retcode", "empty_list"}, value : {0}]
    \cup [kind : {"ticker"}, value : {0, 1, 3, 20000000}]

\* _get_account_balance with "sufficient" meaning at least 10 USDT.
GetAccountBalanceAtLeast(resp) ==
    IF resp.kind = "usdt"
    THEN [sufficient |-> resp.value >= 10, available_balance |-> resp.value]
    ELSE [sufficient |-> FALSE, available_balance |-> 0]

\* _get_account_balance
GetAccountBalance(resp) ==
    IF resp.kind = "usdt"
    THEN [sufficient |-> resp.value > 10, available_balance |-> resp.value]
    ELSE IF resp.kind = "no_usdt"
    THEN [sufficient |-> 0 > 10, available_balance |-> 0]
    ELSE [sufficient |-> FALSE, available_balance |-> 0]

\* _get_current_price: a float, or None.
GetCurrentPrice(resp) ==
    IF resp.kind = "ticker" THEN [kind |-> "num", value |-> resp.value]
    ELSE [kind |-> "none", value |-> 0]

\* round(num / den) for num >= 0 and den > 0, ties to the even neighbour.
Round(num, den) ==
    LET q == num \div den
        twice == 2 * (num % den)
    IN IF twice < den THEN q
       ELSE IF twice > den THEN q + 1
       ELSE IF q % 2 = 0 THEN q ELSE q + 1

\* _calculate_order_quantity with the except branch returning min_qty.
CalculateOrderQuantityMinOnError(available_balance, price) ==
    IF price = 0 THEN 1
    ELSE Round(available_balance * 8 * 100000, price)

\* _calculate_order_quantity: 80% of the balance divided by the price, in
\* units of min_qty; the division by zero is caught and gives 0.
CalculateOrderQuantity(available_balance, price) ==
    IF price = 0 THEN 0
    ELSE Round(available_balance * 8 * 100000, price)

\* execute_trade is called for a buy or sell decision.
ExecuteTradeCall ==
    /\ tradePc = "idle"
    /\ tradePc' = "balance"
    /\ reached' = {"balance"}
    /\ UNCHANGED <<balance_response, balance_info, current_price, order_qty,
                   trade_result, qtyCall>>
    /\ UNCHANGED notTrade

\* 1. the balance check
CheckBalance ==
    /\ tradePc = "balance"
    /\ \E resp \in BalanceResponses :
        LET info == GetAccountBalance(resp)
        IN /\ balance_response' = resp
           /\ balance_info' = info
           /\ IF ~info.sufficient
              THEN /\ tradePc' = "returned"
                   /\ trade_result' = [success |-> FALSE,
                                       error |-> "insufficient"]
                   /\ reached' = reached
              ELSE /\ tradePc' = "price"
                   /\ trade_result' = trade_result
                   /\ reached' = reached \cup {"price"}
    /\ UNCHANGED <<current_price, order_qty, qtyCall>>
    /\ UNCHANGED notTrade

\* 2. the price lookup; None and 0.0 both count as no price.
CheckPrice ==
    /\ tradePc = "price"
    /\ \E resp \in PriceResponses :
        LET price == GetCurrentPrice(resp)
        IN /\ current_price' = price
           /\ IF price.kind = "none" \/ price.value = 0
              THEN /\ tradePc' = "returned"
                   /\ trade_result' = [success |-> FALSE,
                                       error |-> "no_price"]
                   /\ reached' = reached
              ELSE /\ tradePc' = "quantity"
                   /\ trade_result' = trade_result
                   /\ reached' = reached \cup {"quantity"}
    /\ UNCHANGED <<balance_response, balance_info, order_qty, qtyCall>>
    /\ UNCHANGED notTrade

\* 3. the quantity
CheckQuantity ==
    /\ tradePc = "quantity"
    /\ LET qty == CalculateOrderQuantity(balance_info.available_balance,
                                         current_price.value)
       IN /\ order_qty' = qty
          /\ IF qty <= 0
             THEN /\ tradePc' = "returned"
                  /\ trade_result' = [success |-> FALSE,
                                      error |-> "quantity"]
                  /\ reached' = reached
             ELSE /\ tradePc' = "order"
                  /\ trade_result' = trade_result
                  /\ reached' = reached \cup {"order"}
    /\ UNCHANGED <<balance_response, balance_info, current_price, qtyCall>>
    /\ UNCHANGED notTrade

\* 4. and 5. _place_order, then _save_trade_log, then return order_result.
PlaceOrderAndLog ==
    /\ tradePc = "order"
    /\ \E answer \in {"rejected", "accepted"} :
        LET order_result == PlaceOrder([trade |-> answer])
        IN trade_result' = [success |-> order_result.success,
                            error |-> IF order_result.success THEN "none"
                                      ELSE "order"]
    /\ tradePc' = "returned"
    /\ UNCHANGED <<balance_response, balance_info, current_price, order_qty,
                   reached, qtyCall>>
    /\ UNCHANGED notTrade

\* The caller has the result; the locals are gone.
ExecuteTradeReturns ==
    /\ tradePc = "returned"
    /\ tradePc' = "idle"
    /\ balance_response' = [kind |-> "none", value |-> 0]
    /\ balance_info' = [sufficient |-> FALSE, available_balance |-> 0]
    /\ current_price' = [kind |-> "none", value |-> 0]
    /\ order_qty' = 0
    /\ trade_result' = [success |-> FALSE, error |-> "none"]
    /\ reached' = {}
    /\ UNCHANGED qtyCall
    /\ UNCHANGED notTrade

\* _calculate_order_quantity called on its own.
CalculateOrderQuantityCall ==
    /\ tradePc = "idle"
    /\ \E b \in {0, 11, 50}, price \in {0, 1, 3, 20000000} :
        qtyCall' = [called |-> TRUE, available_balance |-> b,
                    current_price |-> price,
                    result |-> CalculateOrderQuantity(b, price)]
    /\ UNCHANGED <<tradePc, balance_response, balance_info, current_price,
                   order_qty, trade_result, reached>>
    /\ UNCHANGED notTrade

NextTrade ==
    \/ ExecuteTradeCall
    \/ CheckBalance
    \/ CheckPrice
    \/ CheckQuantity
    \/ PlaceOrderAndLog
    \/ ExecuteTradeReturns
    \/ CalculateOrderQuantityCall

SpecTrade == Init /\ [][NextTrade]_vars

-----------------------------------------------------------------------------
(* Claims about one trade (checked under SpecTrade).                       *)

\* C17: _calculate_order_quantity returns 0 whenever the price or the
\* available balance is 0, and execute_trade does not get to placing an
\* order when the quantity it computed is not positive.
C17_ZeroQuantityPlacesNoOrder ==
    /\ (qtyCall.called
           /\ (qtyCall.current_price = 0 \/ qtyCall.available_balance = 0))
          => qtyCall.result = 0
    /\ ("quantity" \in reached /\ tradePc # "quantity" /\ order_qty <= 0)
          => /\ "order" \notin reached
             /\ tradePc = "returned"
             /\ ~trade_result.success

\* C17 witness: a direct call with price 0 and a positive balance gave 0,
\* and a trade whose quantity came out as 0 has returned.
C17_Witness ==
    /\ qtyCall.called
    /\ qtyCall.current_price = 0
    /\ qtyCall.available_balance > 0
    /\ qtyCall.result = 0
    /\ tradePc = "returned"
    /\ "quantity" \in reached
    /\ order_qty = 0

-----------------------------------------------------------------------------
(* SpecLoop: AutoTradingScheduler.start_scheduler, stop_scheduler and      *)
(* manual_execution.  A trading cycle is followed here only from its start *)
(* to its end; SpecSched follows what it does.  Time is left out: whether  *)
(* the five minutes of the registered job have passed when run_pending     *)
(* looks is a choice of the step.                                          *)

\* schedule.run_pending(): a registered job that is due runs
\* _schedule_trading_job, which creates a task for execute_trading_cycle.
RunPending(due, inProgress) ==
    IF jobs > 0 /\ due
    THEN /\ started < MaxCycles
         /\ cycles' = inProgress + 1
         /\ started' = started + 1
    ELSE /\ cycles' = inProgress
         /\ UNCHANGED started

\* start_scheduler up to its first await: register the job; in the
\* development environment await one cycle, otherwise set the run flag
\* and go through the loop once (the job registered just now is not due).
StartScheduler ==
    /\ loopPc = "init"
    /\ jobs' = jobs + 1
    /\ \E dev \in BOOLEAN :
          /\ development' = dev
          /\ IF dev
             THEN /\ loopPc' = "first_cycle"
                  /\ cycles' = cycles + 1
                  /\ started' = started + 1
                  /\ UNCHANGED is_running
             ELSE /\ is_running' = TRUE
                  /\ loopPc' = "sleep"
                  /\ UNCHANGED <<cycles, started>>
    /\ UNCHANGED <<manual, stopCalled>>
    /\ UNCHANGED notLoop

\* The cycle awaited by start_scheduler returns: set the run flag, test
\* it, run_pending, sleep.
FirstCycleReturns ==
    /\ loopPc = "first_cycle"
    /\ is_running' = TRUE
    /\ \E due \in BOOLEAN : RunPending(due, cycles - 1)
    /\ loopPc' = "sleep"
    /\ UNCHANGED <<development, jobs, manual, stopCalled>>
    /\ UNCHANGED notLoop

\* asyncio.sleep(1) of the loop ends: test the run flag, then either
\* run_pending and sleep again, or leave start_scheduler.
SleepElapsed ==
    /\ loopPc = "sleep"
    /\ IF is_running
       THEN /\ \E due \in BOOLEAN : RunPending(due, cycles)
            /\ UNCHANGED loopPc
       ELSE /\ loopPc' = "exited"
            /\ UNCHANGED <<cycles, started>>
    /\ UNCHANGED <<is_running, development, jobs, manual, stopCalled>>
    /\ UNCHANGED notLoop

\* A cycle running as a task, or awaited by manual_execution, returns.
CycleReturns ==
    /\ cycles > (IF loopPc = "first_cycle" THEN 1 ELSE 0)
    /\ cycles' = cycles - 1
    /\ UNCHANGED <<loopPc, is_running, development, jobs, started, manual,
                   stopCalled>>
    /\ UNCHANGED notLoop

\* manual_execution(): await execute_trading_cycle.
ManualExecution ==
    /\ manual < MaxCycles
    /\ manual' = manual + 1
    /\ cycles' = cycles + 1
    /\ UNCHANGED <<loopPc, is_running, development, jobs, started,
                   stopCalled>>
    /\ UNCHANGED notLoop

\* stop_scheduler(): clear the run flag and the registered jobs.
StopScheduler ==
    /\ ~stopCalled
    /\ loopPc # "init"
    /\ stopCalled' = TRUE
    /\ is_running' = FALSE
    /\ jobs' = 0
    /\ UNCHANGED <<loopPc, development, cycles, started, manual>>
    /\ UNCHANGED notLoop

NextLoop ==
    \/ StartScheduler
    \/ FirstCycleReturns
    \/ SleepElapsed
    \/ CycleReturns
    \/ ManualExecution
    \/ StopScheduler

SpecLoop == Init /\ [][NextLoop]_vars

-----------------------------------------------------------------------------
(* Claims about the scheduler loop (checked under SpecLoop).               *)

\* C24: after stop_scheduler() has been called the run flag stays cleared,
\* so that the loop of start_scheduler exits at its next test, and the
\* scheduler starts no trading cycle; also when the call came while the
\* development-mode cycle of start_scheduler was running.
C24_StopEndsLoop ==
    [][stopCalled => ~is_running' /\ started' = started]_vars

\* C35: at most one execute_trading_cycle is in progress at any time,
\* whether it was started by a scheduled tick, by start_scheduler in the
\* development environment or by manual_execution.
C35_AtMostOneCycle ==
    cycles <= 1

-----------------------------------------------------------------------------
(* The receive loop: _message_loop hands every inbound message to          *)
(* _handle_message, which hands a kline message to _process_kline_data.    *)
(* A message is followed as one step, each save being the LPUSH and LTRIM  *)
(* of save_candle_data.  The k-th candle the exchange sends starts at k.   *)

\* The entries of the 'data' list of a kline message: 'fields' says whether
\* start, open, high, low, close and volume are all present.
RecvEntries == [confirm : {"true", "false"}, fields : {"complete", "missing"}]

\* What the socket can deliver: text that is not JSON, the subscribe
\* acknowledgement, a pong, and kline messages of up to two entries.
InboundMessages ==
    {[kind |-> k, data |-> <<>>] : k \in {"not_json", "subscribe_ack", "pong"}}
        \cup {[kind |-> "kline", data |-> d] :
                 d \in {<<>>} \cup {<<e>> : e \in RecvEntries}
                          \cup {<<e, f>> : e, f \in RecvEntries}}

\* The for loop of _process_kline_data from one entry on; the entries start
\* at first, first + 1, ...  An unconfirmed entry is skipped before any other
\* field is read; CandleData(timestamp=kline_data['start'], ...) raises
\* KeyError on a confirmed entry with a missing field, which ends the loop.
RECURSIVE ProcessKlineEntries(_, _, _)
ProcessKlineEntries(list, data, first) ==
    IF data = <<>>
    THEN [list |-> list, raised |-> FALSE]
    ELSE IF ~GetConfirm(Head(data))
         THEN ProcessKlineEntries(list, Tail(data), first + 1)
         ELSE IF Head(data).fields = "missing"
              THEN [list |-> list, raised |-> TRUE]
              ELSE ProcessKlineEntries(
                       LTrim(LPush(list, Candle(first, "ws")),
                             0, MaxCandles - 1),
                       Tail(data), first + 1)

\* _process_kline_data without its except clause: the KeyError leaves it.
ProcessKlineDataUncaught(list, data, first) ==
    LET r == ProcessKlineEntries(list, data, first)
    IN [list |-> r.list,
        active |-> data # <<>> /\ ~r.raised,
        raised |-> r.raised]

\* _process_kline_data: returns at once on an empty 'data'; publishes
\* 'active' after the loop; its except clause logs whatever the loop raised.
ProcessKlineDataResult(list, data, first) ==
    LET r == ProcessKlineEntries(list, data, first)
    IN [list |-> r.list,
        active |-> data # <<>> /\ ~r.raised,
        raised |-> FALSE]

\* _handle_message without its except clauses, calling the
\* _process_kline_data without one.
HandleMessageUncaught(list, message, first) ==
    IF message.kind = "not_json"
    THEN [list |-> list, active |-> FALSE, raised |-> TRUE]
    ELSE IF message.kind = "kline"
         THEN ProcessKlineDataUncaught(list, message.data, first)
         ELSE [list |-> list, active |-> FALSE, raised |-> FALSE]

\* _handle_message: json.loads raises JSONDecodeError on text that is not
\* JSON, and both except clauses only log; the acknowledgement and the pong
\* are logged; 'raised' says whether an exception reaches _message_loop.
HandleMessageResult(list, message, first) ==
    IF message.kind = "not_json"
    THEN [list |-> list, active |-> FALSE, raised |-> FALSE]
    ELSE IF message.kind = "kline"
         THEN ProcessKlineDataResult(list, message.data, first)
         ELSE [list |-> list, active |-> FALSE, raised |-> FALSE]

\* A message that is not JSON, or a kline message with an entry that lacks
\* a field.
Malformed(message) ==
    \/ message.kind = "not_json"
    \/ \E i \in 1..Len(message.data) : message.data[i].fields = "missing"

\* One iteration of "async for message in self.websocket": an exception
\* that leaves _handle_message is caught by _message_loop, which publishes
\* 'error' and schedules a reconnect.
HandleMessage ==
    /\ connPc = "message_loop"
    /\ websocket = "open"
    /\ recvCount < MaxRecv
    /\ \E message \in InboundMessages :
           LET out == HandleMessageResult(store, message, recvCount * 2 + 1)
           IN /\ recvCount' = recvCount + 1
              /\ lastMsg' = message
              /\ malformedSeen' = (malformedSeen \/ Malformed(message))
              /\ store' = out.list
              /\ IF out.raised
                 THEN /\ websocket' = "closed"
                      /\ websocket_status' = "error"
                      /\ ScheduleReconnect(reconnect_attempts)
                 ELSE /\ websocket_status' =
                             IF out.active THEN "active" ELSE websocket_status
                      /\ UNCHANGED <<websocket, reconnect_attempts, gaveUp,
                                     connPc>>
    /\ UNCHANGED <<is_connecting, running, sessions, ping_task, oldPings,
                   disconnectCalled, subscribed>>
    /\ UNCHANGED <<clock, loopOwner, wsLocals, colLocals>>
    /\ UNCHANGED notRecv

NextRecv ==
    \/ Connect
    \/ ConnectSucceeds
    \/ HandleMessage

SpecRecv == Init /\ [][NextRecv]_vars

-----------------------------------------------------------------------------
(* Claims about the receive loop (checked under SpecRecv).                 *)

\* C33: handling a message that is not valid JSON, or a kline message with
\* missing fields, does not end the receive loop: the socket stays open, the
\* loop keeps iterating and no reconnect is scheduled; and every confirmed
\* candle of a well-formed kline message that arrives after a malformed one
\* is in the series once the message has been handled.
C33_MalformedDoesNotEndLoop ==
    [][recvCount' = recvCount + 1 =>
          /\ Malformed(lastMsg') =>
                 /\ websocket' = "open"
                 /\ connPc' = "message_loop"
                 /\ reconnect_attempts' = reconnect_attempts
                 /\ gaveUp' = gaveUp
                 /\ websocket_status' # "error"
          /\ (malformedSeen /\ ~Malformed(lastMsg')) =>
                 \A i \in 1..Len(lastMsg'.data) :
                     GetConfirm(lastMsg'.data[i]) =>
                         \E j \in 1..Len(store') :
                             store'[j] = Candle(recvCount * 2 + i, "ws")]_vars

\* Text that is not JSON and a kline message with a missing field have both
\* been handled, and the confirmed candle of the message after them is the
\* head of the series.
C33_Witness ==
    /\ recvCount = 3
    /\ malformedSeen
    /\ lastMsg.kind = "kline"
    /\ Len(lastMsg.data) = 1
    /\ GetConfirm(lastMsg.data[1])
    /\ lastMsg.data[1].fields = "complete"
    /\ Len(store) > 0
    /\ store[1] = Candle(5, "ws")
    /\ websocket = "open"
    /\ connPc = "message_loop"

-----------------------------------------------------------------------------
(* save_candle_data against a store whose commands can fail.  LPUSH and    *)
(* LTRIM are two commands; redis.RedisError from either is logged and      *)
(* raised again, and nothing undoes a command that has been applied.       *)

\* How a call can go: both commands applied, LPUSH raises, LTRIM raises.
SaveOutcomes == {"ok", "lpush_fails", "ltrim_fails"}

\* The series after save_candle_data(symbol, interval, candle).
SaveCandleDataResult(list, candle, outcome) ==
    IF outcome = "lpush_fails"
    THEN list
    ELSE IF outcome = "ltrim_fails"
         THEN LPush(list, candle)
         ELSE LTrim(LPush(list, candle), 0, MaxCandles - 1)

\* One call of save_candle_data.
SaveCandleData ==
    /\ saves < MaxSaves
    /\ \E ts \in 1..MaxTs, outcome \in SaveOutcomes :
           /\ store' = SaveCandleDataResult(store, Candle(ts, "ws"), outcome)
           /\ lastSave' = [outcome |-> outcome, before |-> store]
    /\ saves' = saves + 1
    /\ UNCHANGED <<clock, loopOwner, wsLocals, colLocals>>
    /\ UNCHANGED notSave

NextSave == SaveCandleData

SpecSave == Init /\ [][NextSave]_vars

-----------------------------------------------------------------------------
(* Claims about one save (checked under SpecSave).                         *)

\* C34: when save_candle_data raised a store error, the series is exactly
\* what it was before the call and holds at most N candles.
C34_FailedSaveLeavesSeries ==
    lastSave.outcome \in {"lpush_fails", "ltrim_fails"} =>
        /\ store = lastSave.before
        /\ Len(store) <= MaxCandles


=============================================================================
